---- MODULE Spec2Model ----
\* A model of bot-prodazh/database.py: the Database class (in-memory
\* collections mirrored to six JSON documents) and the callers that use it.
EXTENDS FiniteSets, Integers, Sequences, TLC

\* ---------------------------------------------------------------------
\* Bounds of the model
\* ---------------------------------------------------------------------
MaxAdId == 6        \* add_ad and the seeding stop once ids would pass this
MaxRowId == 2       \* add_subscription stops once rowids would pass this
MaxClock == 1       \* the clock stops advancing here
MaxOffers == 3      \* longest price-offer list of one ad
MaxMedia == 4       \* longest media list of one ad
MaxSteps == 4       \* operations per run in the specifications that count steps
MaxCalls == 3       \* coroutines created per run where callers run concurrently
MaxSubs == 4        \* rowids handed out where the subscription lists grow long

UserIds == {1, 2}
AllAdIds == 1..(MaxAdId + 1)
AllRowIds == 1..(MaxRowId + 1)

\* ---------------------------------------------------------------------
\* Python values.  A dict value that may be None, absent, a str, an int or
\* a datetime is a tagged tuple; datetime.isoformat() yields a str.
\* ---------------------------------------------------------------------
None == <<"none">>
Missing == <<"missing">>          \* the key is not in the dict
Str(s) == <<"str", s>>
IntV(n) == <<"int", n>>
Dt(t) == <<"datetime", t>>        \* a datetime: t is the instant
IsDatetime(v) == v[1] = "datetime"
IsStr(v) == v[1] = "str" \/ v[1] = "isostr"
Truthy(v) == v # None /\ v # Missing /\ v # Str("") /\ v # IntV(0)

isoformat(v) == <<"isostr", v[2]>>
fromisoformat(v) == <<"datetime", v[2]>>
IsIsoStr(v) == v[1] = "isostr"

\* str(int) for the top-level keys of a JSON document, and int(str) back
KeyStr(n) == <<"key", n>>
KeyInt(k) == k[2]

\* dict helpers: a dict without a meaningful order is a function
EmptyDict == [k \in {} |-> None]
DictPut(d, k, v) == [x \in (DOMAIN d) \cup {k} |-> IF x = k THEN v ELSE d[x]]
\* defaultdict.__getitem__: the key is created with the default when absent
DefaultGet(d, k, dflt) == IF k \in DOMAIN d THEN d ELSE DictPut(d, k, dflt)

Min(a, b) == IF a <= b THEN a ELSE b
SeqRange(s) == {s[i] : i \in 1..Len(s)}
RemoveAt(s, i) == SubSeq(s, 1, i - 1) \o SubSeq(s, i + 1, Len(s))

RECURSIVE SetToSortedSeq(_)
SetToSortedSeq(S) ==
  IF S = {} THEN <<>>
  ELSE LET m == CHOOSE x \in S : \A y \in S : x <= y
       IN <<m>> \o SetToSortedSeq(S \ {m})

SetMax(S) == CHOOSE x \in S : \A y \in S : y <= x

\* ---------------------------------------------------------------------
\* State
\* ---------------------------------------------------------------------
VARIABLES
  users,                 \* self.users: user_id -> user dict
  ads,                   \* self.ads: ordered dict, as <<ad_id, ad dict>> pairs
  favorites,             \* self.favorites: defaultdict(set)
  subscriptions,         \* self.subscriptions: ordered defaultdict(list), as <<user_id, list>> pairs
  price_offers,          \* self.price_offers: defaultdict(list)
  bot_open,              \* self.bot_open
  next_ad_id,            \* self._next_ad_id
  next_subscription_id,  \* self._next_subscription_id
  disk,                  \* the six JSON documents in DATA_DIR
  now,                   \* the clock read by datetime.utcnow()
  op,                    \* history: the last operation called, its arguments and
                         \* what it found (saw)
  ret,                   \* what that operation returned (or raised)
  held,                  \* a value a caller still holds from an earlier accessor call
  issued_ads,            \* history: every ad id handed out, in order
  issued_rowids,         \* history: every subscription rowid handed out, in order
  steps,                 \* operations executed so far (where a specification counts them)
  again,                 \* history: the last call repeats the call before it
                         \* (where a specification tracks it)
  fault,                 \* how the writes of the next call's _save_data will go
  failed,                \* history: a save of this process has failed
  tasks                  \* the coroutines callers have created on the event loop,
                         \* and the log of the completed ones

vars == <<users, ads, favorites, subscriptions, price_offers, bot_open,
          next_ad_id, next_subscription_id, disk, now, op, ret, held,
          issued_ads, issued_rowids, steps, again, fault, failed, tasks>>

\* The in-memory fields of the Database object as one record
Mem ==
  [users |-> users, ads |-> ads, favorites |-> favorites,
   subscriptions |-> subscriptions, price_offers |-> price_offers,
   bot_open |-> bot_open, next_ad_id |-> next_ad_id,
   next_subscription_id |-> next_subscription_id]

MemNext ==
  [users |-> users', ads |-> ads', favorites |-> favorites',
   subscriptions |-> subscriptions', price_offers |-> price_offers',
   bot_open |-> bot_open', next_ad_id |-> next_ad_id',
   next_subscription_id |-> next_subscription_id']

SetMem(m) ==
  /\ users' = m.users
  /\ ads' = m.ads
  /\ favorites' = m.favorites
  /\ subscriptions' = m.subscriptions
  /\ price_offers' = m.price_offers
  /\ bot_open' = m.bot_open
  /\ next_ad_id' = m.next_ad_id
  /\ next_subscription_id' = m.next_subscription_id

\* Database.__init__, lines 29-36: the fields before _load_data
FreshMem ==
  [users |-> EmptyDict, ads |-> <<>>, favorites |-> EmptyDict,
   subscriptions |-> <<>>, price_offers |-> EmptyDict,
   bot_open |-> TRUE, next_ad_id |-> 1, next_subscription_id |-> 1]

\* An ordered dict (Python dicts keep insertion order) is the sequence of
\* its <<key, value>> items.
OKeys(d) == {d[i][1] : i \in 1..Len(d)}
OIndex(d, k) == CHOOSE i \in 1..Len(d) : d[i][1] = k
OGet(d, k) == d[OIndex(d, k)][2]
OPut(d, k, v) ==
  IF k \in OKeys(d) THEN [d EXCEPT ![OIndex(d, k)] = <<k, v>>]
  ELSE Append(d, <<k, v>>)
OPop(d, k) == IF k \in OKeys(d) THEN RemoveAt(d, OIndex(d, k)) ELSE d
OValues(d) == [i \in 1..Len(d) |-> d[i][2]]

\* self.subscriptions.get(user_id, [])
SubGet(s, u) == IF u \in OKeys(s) THEN OGet(s, u) ELSE <<>>
AllSubs(s) == UNION {SeqRange(s[i][2]) : i \in 1..Len(s)}
RowIds(s) == {x.rowid : x \in AllSubs(s)}

\* ---------------------------------------------------------------------
\* Persistence: _serialize_datetime, _deserialize_datetime, _load_data,
\* _save_data.  A document is absent, well-formed ("ok") or unreadable
\* ("bad": truncated or malformed JSON).
\* ---------------------------------------------------------------------
DocOrder == <<"users", "ads", "favorites", "subscriptions", "price_offers", "state">>
NumDocs == Len(DocOrder)
NoDoc == [st |-> "absent", data |-> <<>>]
BadDoc == [st |-> "bad", data |-> <<>>]
OkDoc(x) == [st |-> "ok", data |-> x]
EmptyDisk == [n \in SeqRange(DocOrder) |-> NoDoc]

\* the dict keys whose values the model holds as tagged tuples
TaggedKeys == {"username", "status", "name", "phone", "city", "cheque_file_id",
               "created_at", "last_active", "added_date", "timestamp"}
DatetimeKeys == {"created_at", "last_active", "added_date", "timestamp"}

\* {k: self._serialize_datetime(v) if isinstance(v, datetime) else v ...}
SerializeRecord(r) ==
  [k \in DOMAIN r |->
     IF k \in TaggedKeys /\ IsDatetime(r[k]) THEN isoformat(r[k]) ELSE r[k]]

\* Database._deserialize_datetime
DeserializeDatetime(r) ==
  [k \in DOMAIN r |->
     IF k \in DatetimeKeys /\ IsStr(r[k])
     THEN (IF IsIsoStr(r[k]) THEN fromisoformat(r[k]) ELSE r[k])
     ELSE r[k]]

\* list(ad_ids) of a set, and set(ad_ids) back: the list order is not observable
SetToList(S) == SetToSortedSeq(S)

\* _load_data, one document at a time -------------------------------------
LoadUsers(m, doc) ==
  [m EXCEPT !.users =
     [u \in {KeyInt(k) : k \in DOMAIN doc.data} |->
        DeserializeDatetime(doc.data[KeyStr(u)])]]

RECURSIVE LoadAdItems(_, _, _)
LoadAdItems(acc, items, i) ==
  IF i > Len(items) THEN acc
  ELSE LoadAdItems(OPut(acc, KeyInt(items[i][1]), DeserializeDatetime(items[i][2])),
                   items, i + 1)

LoadAds(m, doc) ==
  LET loaded == LoadAdItems(m.ads, doc.data, 1)
  IN [m EXCEPT !.ads = loaded,
               !.next_ad_id = IF loaded # <<>> THEN SetMax(OKeys(loaded)) + 1 ELSE @]

LoadFavorites(m, doc) ==
  [m EXCEPT !.favorites =
     [u \in {KeyInt(k) : k \in DOMAIN doc.data} |-> SeqRange(doc.data[KeyStr(u)])]]

RECURSIVE LoadSubItems(_, _, _)
LoadSubItems(acc, items, i) ==
  IF i > Len(items) THEN acc
  ELSE LoadSubItems(OPut(acc, KeyInt(items[i][1]), items[i][2]), items, i + 1)

LoadSubscriptions(m, doc) ==
  LET loaded == LoadSubItems(m.subscriptions, doc.data, 1)
      max_rowid == IF RowIds(loaded) = {} THEN 0 ELSE SetMax(RowIds(loaded))
  IN [m EXCEPT !.subscriptions = loaded,
               !.next_subscription_id = max_rowid + 1]

LoadPriceOffers(m, doc) ==
  [m EXCEPT !.price_offers =
     [a \in {KeyInt(k) : k \in DOMAIN doc.data} |->
        [i \in 1..Len(doc.data[KeyStr(a)]) |->
           DeserializeDatetime(doc.data[KeyStr(a)][i])]]]

\* a load that ignores the saved counters
LoadStateLosingCounters(m, doc) ==
  [m EXCEPT !.bot_open = doc.data.bot_open]

LoadState(m, doc) ==
  [m EXCEPT !.bot_open = doc.data.bot_open,
            !.next_ad_id = doc.data.next_ad_id,
            !.next_subscription_id = doc.data.next_subscription_id]

LoadDoc(m, name, doc) ==
  CASE name = "users" -> LoadUsers(m, doc)
    [] name = "ads" -> LoadAds(m, doc)
    [] name = "favorites" -> LoadFavorites(m, doc)
    [] name = "subscriptions" -> LoadSubscriptions(m, doc)
    [] name = "price_offers" -> LoadPriceOffers(m, doc)
    [] name = "state" -> LoadState(m, doc)

\* the try block of _load_data: an absent document is skipped, an unreadable
\* one raises and ends the whole load with what was read so far
RECURSIVE LoadFrom(_, _, _)
LoadFrom(m, d, i) ==
  IF i > NumDocs THEN m
  ELSE LET doc == d[DocOrder[i]]
       IN CASE doc.st = "absent" -> LoadFrom(m, d, i + 1)
            [] doc.st = "bad" -> m
            [] doc.st = "ok" -> LoadFrom(LoadDoc(m, DocOrder[i], doc), d, i + 1)

LoadData(d) == LoadFrom(FreshMem, d, 1)

\* _save_data, one document at a time -------------------------------------
DumpDoc(m, name) ==
  CASE name = "users" ->
         [k \in {KeyStr(u) : u \in DOMAIN m.users} |->
            SerializeRecord(m.users[KeyInt(k)])]
    [] name = "ads" ->
         [i \in 1..Len(m.ads) |->
            <<KeyStr(m.ads[i][1]), SerializeRecord(m.ads[i][2])>>]
    [] name = "favorites" ->
         [k \in {KeyStr(u) : u \in DOMAIN m.favorites} |->
            SetToList(m.favorites[KeyInt(k)])]
    [] name = "subscriptions" ->
         [i \in 1..Len(m.subscriptions) |->
            <<KeyStr(m.subscriptions[i][1]), m.subscriptions[i][2]>>]
    [] name = "price_offers" ->
         [k \in {KeyStr(a) : a \in DOMAIN m.price_offers} |->
            [i \in 1..Len(m.price_offers[KeyInt(k)]) |->
               SerializeRecord(m.price_offers[KeyInt(k)][i])]]
    [] name = "state" ->
         [bot_open |-> m.bot_open, next_ad_id |-> m.next_ad_id,
          next_subscription_id |-> m.next_subscription_id]

DocPos(name) == CHOOSE i \in 1..NumDocs : DocOrder[i] = name

\* a save that leaves users.json to the user operations
SaveDataWithoutUsers(m, d, written, torn) ==
  [n \in SeqRange(DocOrder) |->
     IF n = "users" THEN d[n]
     ELSE IF DocPos(n) <= written THEN OkDoc(DumpDoc(m, n))
     ELSE IF DocPos(n) = written + 1 /\ torn THEN BadDoc
     ELSE d[n]]

\* The try block of _save_data.  written is the number of documents that
\* were written before a write raised (NumDocs: none raised); torn tells
\* whether the failing write had already truncated its document.
SaveData(m, d, written, torn) ==
  [n \in SeqRange(DocOrder) |->
     IF DocPos(n) <= written THEN OkDoc(DumpDoc(m, n))
     ELSE IF DocPos(n) = written + 1 /\ torn THEN BadDoc
     ELSE d[n]]

SaveAll(m, d) == SaveData(m, d, NumDocs, FALSE)

\* every write succeeds
NoFault == [written |-> NumDocs, torn |-> FALSE]
\* self._save_data() as the next call runs it
Save(m, d) == SaveData(m, d, fault.written, fault.torn)

\* ---------------------------------------------------------------------
\* The clock.  Every datetime.utcnow() reads an instant that is not before
\* the previous one; ClockReads(t, n) are the possible results of n
\* successive reads when the clock shows t.
\* ---------------------------------------------------------------------
ClockStep(t) == t..Min(t + 1, MaxClock)
ClockReads(t, n) ==
  {r \in [1..n -> 0..MaxClock] :
     /\ r[1] \in ClockStep(t)
     /\ \A i \in 2..n : r[i] \in ClockStep(r[i - 1])}

\* ---------------------------------------------------------------------
\* Database._seed_sample_ads and Database.__init__
\* ---------------------------------------------------------------------
sample_ads ==
  << [title |-> "Toyota Camry 2.5 AT", model |-> "Camry", year |-> 2019,
      price |-> 17500000, description |-> "Camry: dealer car, one owner",
      photos |-> <<"AQADnuQxG_9z0Ul-", "AQADoOQxG_9z0Ul-", "AQADOeQxG4co0Ul-">>,
      inspection_photos |-> <<>>,
      thickness_photos |-> <<"AQADO-QxG4co0Ul9", "AQADOuQxG4co0Ul9">>],
     [title |-> "Hyundai Tucson 1.6 Turbo", model |-> "Tucson", year |-> 2020,
      price |-> 15800000, description |-> "Tucson: all-wheel-drive crossover",
      photos |-> <<>>, inspection_photos |-> <<>>, thickness_photos |-> <<>>],
     [title |-> "Kia Rio X-Line", model |-> "Rio", year |-> 2021,
      price |-> 9200000, description |-> "Rio: hatchback in excellent condition",
      photos |-> <<>>, inspection_photos |-> <<>>, thickness_photos |-> <<>>] >>
NumSamples == Len(sample_ads)

\* the ad dict built by add_ad and by _seed_sample_ads
NewAd(ad_id, title, model, year, price, description, photos, inspection_photos, thickness_photos, t) ==
  [ad_id |-> ad_id, title |-> title, model |-> model, year |-> year,
   price |-> price, description |-> description, photos |-> photos,
   inspection_photos |-> inspection_photos,
   thickness_photos |-> thickness_photos,
   added_date |-> Dt(t), auction_mode |-> "off"]

RECURSIVE SeedFrom(_, _, _)
SeedFrom(m, ts, i) ==
  IF i > NumSamples THEN m
  ELSE LET ad == sample_ads[i]
           ad_id == m.next_ad_id
       IN SeedFrom([m EXCEPT
                      !.next_ad_id = @ + 1,
                      !.ads = OPut(@, ad_id,
                                   NewAd(ad_id, ad.title, ad.model, ad.year, ad.price,
                                         ad.description, ad.photos, ad.inspection_photos,
                                         ad.thickness_photos, ts[i]))],
                   ts, i + 1)

\* ts: the instants read by the three utcnow() calls
SeedSampleAds(m, ts) == SeedFrom(m, ts, 1)

\* "if not self.ads": the condition under which __init__ seeds
NeedsSeed(m) == m.ads = <<>>

\* Database.__init__ on the documents d: the new object's fields and the
\* documents it leaves behind
ConstructWith(d, ts, written, torn) ==
  LET m == LoadData(d)
  IN IF NeedsSeed(m)
     THEN LET m2 == SeedSampleAds(m, ts)
          IN [mem |-> m2, disk |-> SaveData(m2, d, written, torn), seeded |-> TRUE]
     ELSE [mem |-> m, disk |-> d, seeded |-> FALSE]

\* the same, every write succeeding
Construct(d, ts) == ConstructWith(d, ts, NumDocs, FALSE)

SeededIds(m) == [i \in 1..NumSamples |-> m.next_ad_id + i - 1]

NoHeld == [kind |-> "none", items |-> <<>>]

\* Coroutines.  Calling an async method creates a coroutine; the event loop
\* runs it when it is scheduled, up to its next await.
Callers == {1, 2}
Idle == [pc |-> "idle", name |-> "none", args |-> <<>>, local |-> 0, spawned |-> 0]
NoTasks == [pend |-> [c \in Callers |-> Idle], log |-> <<>>, spawned |-> 0]
Call(name, args, saw) == [name |-> name, args |-> args, saw |-> saw]

\* The first run: no document exists
Init ==
  \E ts \in ClockReads(0, NumSamples) :
    LET c == Construct(EmptyDisk, ts)
    IN /\ users = c.mem.users
       /\ ads = c.mem.ads
       /\ favorites = c.mem.favorites
       /\ subscriptions = c.mem.subscriptions
       /\ price_offers = c.mem.price_offers
       /\ bot_open = c.mem.bot_open
       /\ next_ad_id = c.mem.next_ad_id
       /\ next_subscription_id = c.mem.next_subscription_id
       /\ disk = c.disk
       /\ now = ts[NumSamples]
       /\ op = Call("__init__", <<>>, TRUE)
       /\ ret = None
       /\ held = NoHeld
       /\ issued_ads = SeededIds(FreshMem)
       /\ issued_rowids = <<>>
       /\ steps = 0
       /\ again = FALSE
       /\ fault = NoFault
       /\ failed = FALSE
       /\ tasks = NoTasks

\* The process is stopped and started again: a new Database is constructed
\* from the documents on disk (ts: the instants the seeding reads, when it
\* seeds).  Values held by callers of the old process are gone.
Restart(ts) ==
  LET loaded == LoadData(disk)
      c == ConstructWith(disk, ts, fault.written, fault.torn)
  IN /\ NeedsSeed(loaded) => loaded.next_ad_id + NumSamples - 1 <= MaxAdId
     /\ ~NeedsSeed(loaded) => \A i \in 1..NumSamples : ts[i] = now
     /\ SetMem(c.mem)
     /\ disk' = c.disk
     /\ now' = ts[NumSamples]
     /\ op' = Call("__init__", <<>>, c.seeded)
     /\ ret' = None
     /\ held' = NoHeld
     /\ issued_ads' = IF c.seeded THEN issued_ads \o SeededIds(loaded) ELSE issued_ads
     /\ UNCHANGED issued_rowids

\* ---------------------------------------------------------------------
\* Values held by callers.  dict(ad) copies the keys of an ad but not the
\* three media lists: the copy's lists are the very list objects of the
\* stored ad.  A held copy is [ad_id, rec, shared]: rec is the copy, and
\* the keys in shared are those whose list is still the stored ad's list
\* object (its content is then read from self.ads, not from rec).
\* ---------------------------------------------------------------------
MediaKeys == {"photos", "inspection_photos", "thickness_photos"}
ShallowCopy(ad) == [ad_id |-> ad.ad_id, rec |-> ad, shared |-> MediaKeys]
PlainCopy(r) == [ad_id |-> 0, rec |-> r, shared |-> {}]
Holding(kind, items) == [kind |-> kind, items |-> items]

\* what the caller sees of a held copy c, the stored ads being a
ViewOf(c, a) ==
  IF c.shared = {} THEN c.rec
  ELSE [k \in DOMAIN c.rec |->
          IF k \in c.shared THEN OGet(a, c.ad_id)[k] ELSE c.rec[k]]

\* the stored ad ad_id leaves self.ads: copies keep its list objects alive
Detach(h, a, ad_id) ==
  [h EXCEPT !.items =
     [i \in 1..Len(h.items) |->
        IF h.items[i].shared # {} /\ h.items[i].ad_id = ad_id
        THEN [h.items[i] EXCEPT !.rec = ViewOf(h.items[i], a), !.shared = {}]
        ELSE h.items[i]]]

Raised(e) == <<"raise", e>>
ReturnsSeeing(name, args, r, saw) == op' = Call(name, args, saw) /\ ret' = r
Returns(name, args, r) == ReturnsSeeing(name, args, r, <<>>)

\* ---------------------------------------------------------------------
\* Ads
\* ---------------------------------------------------------------------
\* Database.add_ad, up to the save
AddAd(m, title, price, description, photos, inspection_photos, thickness_photos, model, year, t) ==
  LET ad_id == m.next_ad_id
  IN [m EXCEPT !.next_ad_id = @ + 1,
               !.ads = OPut(@, ad_id,
                            NewAd(ad_id, title, model, year, price, description,
                                  photos, inspection_photos, thickness_photos, t))]

AdArgs ==
  {[title |-> "Lada Vesta", price |-> 100, description |-> "d", photos |-> ph,
    inspection_photos |-> <<>>, thickness_photos |-> <<>>, model |-> "Vesta",
    year |-> 2020] : ph \in {<<"f1">>}}

add_ad(x, t) ==
    LET m == AddAd(Mem, x.title, x.price, x.description, x.photos,
                   x.inspection_photos, x.thickness_photos, x.model, x.year, t)
    IN /\ next_ad_id <= MaxAdId
       /\ SetMem(m)
       /\ disk' = Save(m, disk)
       /\ now' = t
       /\ Returns("add_ad", <<x>>, IntV(next_ad_id))
       /\ issued_ads' = Append(issued_ads, next_ad_id)
       /\ UNCHANGED <<held, issued_rowids>>

\* a delete that leaves the favorites alone
DeleteAdNoCascade(m, ad_id) ==
  [m EXCEPT !.ads = OPop(@, ad_id)]

\* Database.delete_ad, up to the save
DeleteAd(m, ad_id) ==
  IF ad_id \in OKeys(m.ads)
  THEN [m EXCEPT !.ads = OPop(@, ad_id),
                 !.favorites = [u \in DOMAIN @ |-> @[u] \ {ad_id}]]
  ELSE m

delete_ad(ad_id) ==
    LET m == DeleteAd(Mem, ad_id)
    IN /\ SetMem(m)
       /\ disk' = IF ad_id \in OKeys(ads) THEN Save(m, disk) ELSE disk
       /\ ReturnsSeeing("delete_ad", <<ad_id>>, None,
                        {u \in DOMAIN favorites : ad_id \in favorites[u]})
       /\ held' = IF ad_id \in OKeys(ads) THEN Detach(held, ads, ad_id) ELSE held
       /\ UNCHANGED <<now, issued_ads, issued_rowids>>

\* Database.append_ad_media
key_map == [photo |-> "photos", inspection |-> "inspection_photos",
            thickness |-> "thickness_photos"]

AppendAdMediaError(m, ad_id, media_type) ==
  IF ad_id \notin OKeys(m.ads) THEN "ValueError: ad not found"
  ELSE IF media_type \notin DOMAIN key_map THEN "ValueError: unknown media type"
  ELSE "ok"

AppendAdMedia(m, ad_id, file_id, media_type) ==
  LET key == key_map[media_type]
      ad == OGet(m.ads, ad_id)
  IN [m EXCEPT !.ads = OPut(@, ad_id, [ad EXCEPT ![key] = Append(@, file_id)])]

append_ad_media(ad_id, file_id, media_type) ==
    LET err == AppendAdMediaError(Mem, ad_id, media_type)
        m == IF err = "ok" THEN AppendAdMedia(Mem, ad_id, file_id, media_type) ELSE Mem
    IN /\ err = "ok" => Len(OGet(ads, ad_id)[key_map[media_type]]) < MaxMedia
       /\ SetMem(m)
       /\ disk' = IF err = "ok" THEN Save(m, disk) ELSE disk
       /\ Returns("append_ad_media", <<ad_id, file_id, media_type>>,
                  IF err = "ok" THEN None ELSE Raised(err))
       /\ UNCHANGED <<now, held, issued_ads, issued_rowids>>

\* Database.update_ad
allowed_fields == {"title", "model", "year", "price", "description"}

\* an update that stores every keyword argument whose key the ad has
UpdateAdAnyField(m, ad_id, fields) ==
  LET ad == OGet(m.ads, ad_id)
  IN [m EXCEPT !.ads =
        OPut(@, ad_id,
             [k \in DOMAIN ad |-> IF k \in DOMAIN fields THEN fields[k] ELSE ad[k]])]

UpdateAd(m, ad_id, fields) ==
  LET ad == OGet(m.ads, ad_id)
  IN [m EXCEPT !.ads =
        OPut(@, ad_id,
             [k \in DOMAIN ad |->
                IF k \in DOMAIN fields /\ k \in allowed_fields THEN fields[k] ELSE ad[k]])]

UpdateArgs ==
  {[price |-> 200], [title |-> "Lada Granta", auction_mode |-> "up"],
   [photos |-> <<>>]}

update_ad(ad_id, fields) ==
    LET found == ad_id \in OKeys(ads)
        m == IF found THEN UpdateAd(Mem, ad_id, fields) ELSE Mem
    IN /\ SetMem(m)
       /\ disk' = IF found THEN Save(m, disk) ELSE disk
       /\ Returns("update_ad", <<ad_id, fields>>,
                  IF found THEN None ELSE Raised("ValueError: ad not found"))
       /\ UNCHANGED <<now, held, issued_ads, issued_rowids>>

\* Database.set_auction_mode
auction_modes == {"off", "up", "down"}

\* a validation that forgets the mode
SetAuctionModeErrorAnyMode(m, ad_id, mode) ==
  IF ad_id \notin OKeys(m.ads) THEN "ValueError: ad not found" ELSE "ok"

SetAuctionModeError(m, ad_id, mode) ==
  IF ad_id \notin OKeys(m.ads) THEN "ValueError: ad not found"
  ELSE IF mode \notin auction_modes THEN "ValueError: bad auction mode"
  ELSE "ok"

SetAuctionMode(m, ad_id, mode) ==
  [m EXCEPT !.ads = OPut(@, ad_id, [OGet(m.ads, ad_id) EXCEPT !.auction_mode = mode])]

set_auction_mode(ad_id, mode) ==
    LET err == SetAuctionModeError(Mem, ad_id, mode)
        m == IF err = "ok" THEN SetAuctionMode(Mem, ad_id, mode) ELSE Mem
    IN /\ SetMem(m)
       /\ disk' = IF err = "ok" THEN Save(m, disk) ELSE disk
       /\ Returns("set_auction_mode", <<ad_id, mode>>,
                  IF err = "ok" THEN None ELSE Raised(err))
       /\ UNCHANGED <<now, held, issued_ads, issued_rowids>>

\* ---------------------------------------------------------------------
\* Price offers
\* ---------------------------------------------------------------------
\* Database.add_price_offer, up to the save
AddPriceOffer(m, ad_id, user_id, price, kind, t) ==
  LET d == DefaultGet(m.price_offers, ad_id, <<>>)
  IN [m EXCEPT !.price_offers =
        DictPut(d, ad_id,
                Append(d[ad_id], [user_id |-> user_id, price |-> price,
                                  kind |-> kind, created_at |-> Dt(t)]))]

add_price_offer(ad_id, user_id, price, kind, t) ==
    LET m == AddPriceOffer(Mem, ad_id, user_id, price, kind, t)
    IN /\ ad_id \in DOMAIN price_offers => Len(price_offers[ad_id]) < MaxOffers
       /\ SetMem(m)
       /\ disk' = Save(m, disk)
       /\ now' = t
       /\ Returns("add_price_offer", <<ad_id, user_id, price, kind>>, None)
       /\ UNCHANGED <<held, issued_ads, issued_rowids>>

\* the loop of consume_price_offer: the index of the first offer equal on
\* (user_id, price, kind), 0 when the loop ends without a match
OfferMatches(offer, user_id, price, kind) ==
  offer.user_id = user_id /\ offer.price = price /\ offer.kind = kind

\* a scan that keeps the last match instead of the first
FindOfferLast(offers, idx, user_id, price, kind) ==
  LET hits == {i \in idx..Len(offers) : OfferMatches(offers[i], user_id, price, kind)}
  IN IF hits = {} THEN 0 ELSE SetMax(hits)

RECURSIVE FindOffer(_, _, _, _, _)
FindOffer(offers, idx, user_id, price, kind) ==
  IF idx > Len(offers) THEN 0
  ELSE IF OfferMatches(offers[idx], user_id, price, kind) THEN idx
  ELSE FindOffer(offers, idx + 1, user_id, price, kind)

\* self.price_offers.get(ad_id, [])
OffersOf(m, ad_id) ==
  IF ad_id \in DOMAIN m.price_offers THEN m.price_offers[ad_id] ELSE <<>>

\* Database.consume_price_offer, up to the save
ConsumePriceOffer(m, ad_id, user_id, price, kind) ==
  LET offers == OffersOf(m, ad_id)
      idx == FindOffer(offers, 1, user_id, price, kind)
  IN IF idx = 0 THEN m
     ELSE [m EXCEPT !.price_offers = DictPut(@, ad_id, RemoveAt(offers, idx))]

ConsumePriceOfferResult(m, ad_id, user_id, price, kind) ==
  LET offers == OffersOf(m, ad_id)
      idx == FindOffer(offers, 1, user_id, price, kind)
  IN IF idx = 0 THEN None ELSE <<"offer", offers[idx]>>

consume_price_offer(ad_id, user_id, price, kind) ==
    LET m == ConsumePriceOffer(Mem, ad_id, user_id, price, kind)
        r == ConsumePriceOfferResult(Mem, ad_id, user_id, price, kind)
    IN /\ SetMem(m)
       /\ disk' = IF r # None THEN Save(m, disk) ELSE disk
       /\ ReturnsSeeing("consume_price_offer", <<ad_id, user_id, price, kind>>, r,
                        FindOffer(OffersOf(Mem, ad_id), 1, user_id, price, kind))
       /\ UNCHANGED <<now, held, issued_ads, issued_rowids>>

\* ---------------------------------------------------------------------
\* Favorites
\* ---------------------------------------------------------------------
\* an insertion that does not look the ad up
AddToFavoritesUnchecked(m, user_id, ad_id) ==
  LET d == DefaultGet(m.favorites, user_id, {})
  IN [m EXCEPT !.favorites = DictPut(d, user_id, d[user_id] \cup {ad_id})]

\* an insertion with the lookup negated
AddToFavoritesInverted(m, user_id, ad_id) ==
  IF ad_id \notin OKeys(m.ads)
  THEN LET d == DefaultGet(m.favorites, user_id, {})
       IN [m EXCEPT !.favorites = DictPut(d, user_id, d[user_id] \cup {ad_id})]
  ELSE m

\* Database.add_to_favorites, up to the save
AddToFavorites(m, user_id, ad_id) ==
  IF ad_id \in OKeys(m.ads)
  THEN LET d == DefaultGet(m.favorites, user_id, {})
       IN [m EXCEPT !.favorites = DictPut(d, user_id, d[user_id] \cup {ad_id})]
  ELSE m

add_to_favorites(user_id, ad_id) ==
    LET m == AddToFavorites(Mem, user_id, ad_id)
    IN /\ SetMem(m)
       /\ disk' = IF ad_id \in OKeys(ads) THEN Save(m, disk) ELSE disk
       /\ Returns("add_to_favorites", <<user_id, ad_id>>, None)
       /\ UNCHANGED <<now, held, issued_ads, issued_rowids>>

\* Database.remove_from_favorites, up to the save
RemoveFromFavorites(m, user_id, ad_id) ==
  LET d == DefaultGet(m.favorites, user_id, {})
  IN [m EXCEPT !.favorites = DictPut(d, user_id, d[user_id] \ {ad_id})]

remove_from_favorites(user_id, ad_id) ==
    LET m == RemoveFromFavorites(Mem, user_id, ad_id)
        present == user_id \in DOMAIN favorites /\ ad_id \in favorites[user_id]
    IN /\ SetMem(m)
       /\ disk' = IF present THEN Save(m, disk) ELSE disk
       /\ Returns("remove_from_favorites", <<user_id, ad_id>>, None)
       /\ UNCHANGED <<now, held, issued_ads, issued_rowids>>

\* Database.is_favorite: the lookup in the defaultdict creates the key
IsFavoriteResult(m, user_id, ad_id) ==
  user_id \in DOMAIN m.favorites /\ ad_id \in m.favorites[user_id]

is_favorite(user_id, ad_id) ==
    /\ SetMem([Mem EXCEPT !.favorites = DefaultGet(@, user_id, {})])
    /\ Returns("is_favorite", <<user_id, ad_id>>,
               <<"bool", IsFavoriteResult(Mem, user_id, ad_id)>>)
    /\ UNCHANGED <<disk, now, held, issued_ads, issued_rowids>>

\* ---------------------------------------------------------------------
\* Subscriptions
\* ---------------------------------------------------------------------
\* Database.add_subscription, up to the save
AddSubscription(m, user_id, model, price_min, price_max, year_min, year_max) ==
  LET rowid == m.next_subscription_id
      subscription == [rowid |-> rowid, user_id |-> user_id, model |-> model,
                       price_min |-> price_min, price_max |-> price_max,
                       year_min |-> year_min, year_max |-> year_max]
  IN [m EXCEPT !.next_subscription_id = @ + 1,
               !.subscriptions = OPut(@, user_id, Append(SubGet(@, user_id), subscription))]

\* add_subscription has no return statement
AddSubscriptionResult(m) == None

SubArgs ==
  {[model |-> mo, price_min |-> None, price_max |-> pm, year_min |-> None,
    year_max |-> None] : mo \in {Str("Camry")}, pm \in {None}}

add_subscription_within(user_id, x, bound) ==
    LET m == AddSubscription(Mem, user_id, x.model, x.price_min, x.price_max,
                             x.year_min, x.year_max)
    IN /\ next_subscription_id <= bound
       /\ SetMem(m)
       /\ disk' = Save(m, disk)
       /\ Returns("add_subscription", <<user_id, x>>, AddSubscriptionResult(Mem))
       /\ issued_rowids' = Append(issued_rowids, next_subscription_id)
       /\ UNCHANGED <<now, held, issued_ads>>

add_subscription(user_id, x) == add_subscription_within(user_id, x, MaxRowId)

\* sub['rowid'] != rowid, the argument being an int or None
RowidDiffers(sub, rowid) == ~(rowid[1] = "int" /\ sub.rowid = rowid[2])
\* a filter with the comparison turned around
KeepOnlyMatching(subs, rowid) == SelectSeq(subs, LAMBDA sub : ~RowidDiffers(sub, rowid))

KeepOthers(subs, rowid) == SelectSeq(subs, LAMBDA sub : RowidDiffers(sub, rowid))

\* a loop that empties the first list holding the rowid
DeleteSubFromClearingList(s, rowid, i) ==
  LET hit == {k \in i..Len(s) : Len(KeepOthers(s[k][2], rowid)) # Len(s[k][2])}
  IN IF hit = {} THEN s
     ELSE LET k == CHOOSE k \in hit : \A j \in hit : k <= j
          IN [s EXCEPT ![k] = <<s[k][1], <<>>>>]

\* the loop of delete_subscription from item i on: the first list that
\* gets shorter is replaced and the loop ends
RECURSIVE DeleteSubFrom(_, _, _)
DeleteSubFrom(s, rowid, i) ==
  IF i > Len(s) THEN s
  ELSE LET kept == KeepOthers(s[i][2], rowid)
       IN IF Len(kept) # Len(s[i][2])
          THEN [s EXCEPT ![i] = <<s[i][1], kept>>]
          ELSE DeleteSubFrom(s, rowid, i + 1)

\* Database.delete_subscription, up to the save
DeleteSubscription(m, rowid) ==
  [m EXCEPT !.subscriptions = DeleteSubFrom(@, rowid, 1)]

\* the flag removed of delete_subscription
SubRemoved(m, rowid) == DeleteSubscription(m, rowid) # m

RowidArgs == {IntV(r) : r \in AllRowIds} \cup {None}

delete_subscription(rowid) ==
    LET m == DeleteSubscription(Mem, rowid)
    IN /\ SetMem(m)
       /\ disk' = IF SubRemoved(Mem, rowid) THEN Save(m, disk) ELSE disk
       /\ ReturnsSeeing("delete_subscription", <<rowid>>, None, SubRemoved(Mem, rowid))
       /\ UNCHANGED <<now, held, issued_ads, issued_rowids>>

\* ---------------------------------------------------------------------
\* Users and the bot state
\* ---------------------------------------------------------------------
UserRecord(user_id, username, status, created_at, last_active) ==
  [user_id |-> user_id, username |-> username, status |-> status,
   name |-> None, phone |-> None, city |-> None, cheque_file_id |-> None,
   created_at |-> created_at, last_active |-> last_active]

\* {'user_id': user_id}: the dict update_user_cheque creates
BareUser(user_id) ==
  [user_id |-> user_id, username |-> Missing, status |-> Missing,
   name |-> Missing, phone |-> Missing, city |-> Missing,
   cheque_file_id |-> Missing, created_at |-> Missing, last_active |-> Missing]

\* self.users.setdefault(user_id, dflt)
SetDefault(d, k, dflt) == IF k \in DOMAIN d THEN d ELSE DictPut(d, k, dflt)

\* Database.add_user, up to the save (ts: two clock reads)
AddUser(m, user_id, username, status, ts) ==
  IF user_id \notin DOMAIN m.users
  THEN [m EXCEPT !.users =
          DictPut(@, user_id,
                  UserRecord(user_id, username, status, Dt(ts[1]), Dt(ts[2])))]
  ELSE LET user == m.users[user_id]
           c == IF Truthy(user.created_at) THEN user.created_at ELSE Dt(ts[1])
           l == IF Truthy(user.last_active) THEN user.last_active
                ELSE IF Truthy(user.created_at) THEN Dt(ts[1]) ELSE Dt(ts[2])
       IN [m EXCEPT !.users =
             DictPut(@, user_id,
                     [user EXCEPT !.username = username, !.status = status,
                                  !.created_at = c, !.last_active = l])]

add_user(user_id, username, status, ts) ==
    LET m == AddUser(Mem, user_id, username, status, ts)
    IN /\ SetMem(m)
       /\ disk' = Save(m, disk)
       /\ now' = ts[2]
       /\ Returns("add_user", <<user_id, username, status>>, None)
       /\ UNCHANGED <<held, issued_ads, issued_rowids>>

\* Database.update_user_contact, up to the save
UpdateUserContact(m, user_id, name, phone, city, ts) ==
  LET d == SetDefault(m.users, user_id,
                      UserRecord(user_id, None, Str("pending"), Dt(ts[1]), Dt(ts[2])))
  IN [m EXCEPT !.users =
        DictPut(d, user_id,
                [d[user_id] EXCEPT !.name = name, !.phone = phone, !.city = city])]

update_user_contact(user_id, name, phone, city, ts) ==
    LET m == UpdateUserContact(Mem, user_id, name, phone, city, ts)
    IN /\ SetMem(m)
       /\ disk' = Save(m, disk)
       /\ now' = ts[2]
       /\ Returns("update_user_contact", <<user_id, name, phone, city>>, None)
       /\ UNCHANGED <<held, issued_ads, issued_rowids>>

\* Database.update_user_status, up to the save
UpdateUserStatus(m, user_id, status, ts) ==
  LET d == SetDefault(m.users, user_id,
                      UserRecord(user_id, None, status, Dt(ts[1]), Dt(ts[2])))
  IN [m EXCEPT !.users = DictPut(d, user_id, [d[user_id] EXCEPT !.status = status])]

update_user_status(user_id, status, ts) ==
    LET m == UpdateUserStatus(Mem, user_id, status, ts)
    IN /\ SetMem(m)
       /\ disk' = Save(m, disk)
       /\ now' = ts[2]
       /\ Returns("update_user_status", <<user_id, status>>, None)
       /\ UNCHANGED <<held, issued_ads, issued_rowids>>

\* Database.update_last_active (ts: three clock reads); it does not save
UpdateLastActive(m, user_id, ts) ==
  LET d == SetDefault(m.users, user_id,
                      UserRecord(user_id, None, Str("pending"), Dt(ts[1]), Dt(ts[2])))
  IN [m EXCEPT !.users =
        DictPut(d, user_id, [d[user_id] EXCEPT !.last_active = Dt(ts[3])])]

update_last_active(user_id, ts) ==
    /\ SetMem(UpdateLastActive(Mem, user_id, ts))
    /\ now' = ts[3]
    /\ Returns("update_last_active", <<user_id>>, None)
    /\ UNCHANGED <<disk, held, issued_ads, issued_rowids>>

\* Database.update_username; it does not save
UpdateUsername(m, user_id, username, ts) ==
  IF username = None THEN m
  ELSE LET d == SetDefault(m.users, user_id,
                           UserRecord(user_id, username, Str("pending"),
                                      Dt(ts[1]), Dt(ts[2])))
       IN IF d[user_id].username # username
          THEN [m EXCEPT !.users =
                  DictPut(d, user_id, [d[user_id] EXCEPT !.username = username])]
          ELSE [m EXCEPT !.users = d]

update_username(user_id, username, ts) ==
    /\ SetMem(UpdateUsername(Mem, user_id, username, ts))
    /\ now' = IF username = None THEN now ELSE ts[2]
    /\ username = None => \A i \in 1..2 : ts[i] = now
    /\ Returns("update_username", <<user_id, username>>, None)
    /\ UNCHANGED <<disk, held, issued_ads, issued_rowids>>

\* Database.update_user_cheque; it does not save
UpdateUserCheque(m, user_id, cheque_file_id) ==
  LET d == SetDefault(m.users, user_id, BareUser(user_id))
  IN [m EXCEPT !.users =
        DictPut(d, user_id, [d[user_id] EXCEPT !.cheque_file_id = cheque_file_id])]

update_user_cheque(user_id, cheque_file_id) ==
    /\ SetMem(UpdateUserCheque(Mem, user_id, cheque_file_id))
    /\ Returns("update_user_cheque", <<user_id, cheque_file_id>>, None)
    /\ UNCHANGED <<disk, now, held, issued_ads, issued_rowids>>

\* Database.set_bot_state
SetBotState(m, state) == [m EXCEPT !.bot_open = state]

set_bot_state(state) ==
    LET m == SetBotState(Mem, state)
    IN /\ SetMem(m)
       /\ disk' = Save(m, disk)
       /\ Returns("set_bot_state", <<state>>, None)
       /\ UNCHANGED <<now, held, issued_ads, issued_rowids>>

\* ---------------------------------------------------------------------
\* Read accessors.  The ...Result operators are the values returned; the
\* actions also record what the caller now holds.
\* ---------------------------------------------------------------------
Value(v) == <<"value", v>>

\* sorted(values, key=added_date, reverse=True): a stable sort, so ads with
\* equal added_date keep their order in values
\* a sort without reverse=True: ascending by added_date
InsertAsc(sorted, ad) ==
  LET older == SelectSeq(sorted, LAMBDA a : a.added_date[2] <= ad.added_date[2])
      newer == SelectSeq(sorted, LAMBDA a : a.added_date[2] > ad.added_date[2])
  IN older \o <<ad>> \o newer

RECURSIVE InsertDesc(_, _)
InsertDesc(sorted, ad) ==
  IF sorted = <<>> THEN <<ad>>
  ELSE IF Head(sorted).added_date[2] >= ad.added_date[2]
       THEN <<Head(sorted)>> \o InsertDesc(Tail(sorted), ad)
       ELSE <<ad>> \o sorted

RECURSIVE SortDesc(_, _, _)
SortDesc(values, i, acc) ==
  IF i > Len(values) THEN acc
  ELSE SortDesc(values, i + 1, InsertDesc(acc, values[i]))

\* a listing that does not sort
GetAdsResultUnsorted(m) == OValues(m.ads)

\* Database.get_ads
GetAdsResult(m) == SortDesc(OValues(m.ads), 1, <<>>)

\* Database.get_ad
GetAdResult(m, ad_id) ==
  IF ad_id \in OKeys(m.ads) THEN Value(OGet(m.ads, ad_id)) ELSE None

\* Database.get_favorite_ads (the set is iterated in ascending order)
GetFavoriteAdsResult(m, user_id) ==
  LET ad_ids == IF user_id \in DOMAIN m.favorites THEN m.favorites[user_id] ELSE {}
      present == SelectSeq(SetToList(ad_ids), LAMBDA ad_id : ad_id \in OKeys(m.ads))
  IN [i \in 1..Len(present) |-> OGet(m.ads, present[i])]

\* Database.get_user
GetUserResult(m, user_id) ==
  IF user_id \in DOMAIN m.users THEN Value(m.users[user_id]) ELSE None

\* Database.get_subscriptions
GetSubscriptionsResult(m, user_id) == SubGet(m.subscriptions, user_id)

\* Database.get_all_subscriptions
RECURSIVE ExtendFrom(_, _, _)
ExtendFrom(s, i, result) ==
  IF i > Len(s) THEN result ELSE ExtendFrom(s, i + 1, result \o s[i][2])
GetAllSubscriptionsResult(m) == ExtendFrom(m.subscriptions, 1, <<>>)

ShallowCopies(seq) == [i \in 1..Len(seq) |-> ShallowCopy(seq[i])]
PlainCopies(seq) == [i \in 1..Len(seq) |-> PlainCopy(seq[i])]

Reads(name, args, r, h) ==
  /\ Returns(name, args, r)
  /\ held' = h
  /\ UNCHANGED <<disk, now, issued_ads, issued_rowids>>

get_ads ==
  /\ Reads("get_ads", <<>>, Value(GetAdsResult(Mem)),
           Holding("ads", ShallowCopies(GetAdsResult(Mem))))
  /\ SetMem(Mem)

get_ad(ad_id) ==
  /\ Reads("get_ad", <<ad_id>>, GetAdResult(Mem, ad_id),
           IF ad_id \in OKeys(ads)
           THEN Holding("ad", <<ShallowCopy(OGet(ads, ad_id))>>) ELSE NoHeld)
  /\ SetMem(Mem)

get_favorite_ads(user_id) ==
  /\ Reads("get_favorite_ads", <<user_id>>, Value(GetFavoriteAdsResult(Mem, user_id)),
           Holding("ads", ShallowCopies(GetFavoriteAdsResult(Mem, user_id))))
  /\ SetMem([Mem EXCEPT !.favorites = DefaultGet(@, user_id, {})])

get_user(user_id) ==
  /\ Reads("get_user", <<user_id>>, GetUserResult(Mem, user_id),
           IF user_id \in DOMAIN users
           THEN Holding("user", <<PlainCopy(users[user_id])>>) ELSE NoHeld)
  /\ SetMem(Mem)

get_subscriptions(user_id) ==
  /\ Reads("get_subscriptions", <<user_id>>,
           Value(GetSubscriptionsResult(Mem, user_id)),
           Holding("subscriptions", PlainCopies(GetSubscriptionsResult(Mem, user_id))))
  /\ SetMem(Mem)

get_all_subscriptions ==
  /\ Reads("get_all_subscriptions", <<>>, Value(GetAllSubscriptionsResult(Mem)),
           Holding("subscriptions", PlainCopies(GetAllSubscriptionsResult(Mem))))
  /\ SetMem(Mem)

\* ---------------------------------------------------------------------
\* What a caller does to a value it holds
\* ---------------------------------------------------------------------
\* value[key] = v on the i-th held dict: the copy's key is rebound
caller_sets_key(i, key, v) ==
  /\ i \in 1..Len(held.items)
  /\ key \in DOMAIN held.items[i].rec
  /\ held' = [held EXCEPT !.items[i].rec[key] = v,
                          !.items[i].shared = @ \ {key}]
  /\ Returns("caller_sets_key", <<i, key>>, None)
  /\ SetMem(Mem)
  /\ UNCHANGED <<disk, now, issued_ads, issued_rowids>>

\* value[key].append(file_id) on the i-th held ad: the list object is
\* changed in place, and it is the stored ad's list while key is shared
CallerAppend(m, h, i, key, file_id) ==
  LET c == h.items[i]
  IN IF key \in c.shared
     THEN [m EXCEPT !.ads =
             OPut(@, c.ad_id, [OGet(m.ads, c.ad_id) EXCEPT ![key] = Append(@, file_id)])]
     ELSE m

caller_appends(i, key, file_id) ==
  /\ i \in 1..Len(held.items)
  /\ held.kind \in {"ad", "ads"}
  /\ key \in MediaKeys
  /\ Len(ViewOf(held.items[i], ads)[key]) < MaxMedia
  /\ SetMem(CallerAppend(Mem, held, i, key, file_id))
  /\ held' = IF key \in held.items[i].shared THEN held
             ELSE [held EXCEPT !.items[i].rec[key] = Append(@, file_id)]
  /\ Returns("caller_appends", <<i, key, file_id>>, None)
  /\ UNCHANGED <<disk, now, issued_ads, issued_rowids>>

\* ---------------------------------------------------------------------
\* Callers that run concurrently on the event loop.  A call creates a
\* coroutine (spawn); the loop later runs it up to its next await or to its
\* end (run_...).  SuspendsAt tells where a method body awaits: no method
\* of Database contains an await, so a coroutine that runs, runs to its end.
\* ---------------------------------------------------------------------
\* an await between reading a counter and incrementing it
SuspendsAfterRead(name, point) == point = "after_read"

SuspendsAt(name, point) == FALSE

Task(name, args, n) ==
  [pc |-> "start", name |-> name, args |-> args, local |-> 0, spawned |-> n]
LogEntry(task, result, t) ==
  [name |-> task.name, args |-> task.args, result |-> result, t |-> t,
   spawned |-> task.spawned]
Completes(c, result, t) ==
  tasks' = [tasks EXCEPT !.pend[c] = Idle,
                         !.log = Append(@, LogEntry(tasks.pend[c], result, t))]
Parks(c, point, local) ==
  /\ tasks' = [tasks EXCEPT !.pend[c].pc = point, !.pend[c].local = local]
  /\ SetMem(Mem)
  /\ UNCHANGED <<disk, now, op, ret, held, issued_ads, issued_rowids>>

spawn(c, name, args) ==
  /\ tasks.pend[c].pc = "idle"
  /\ tasks.spawned < MaxCalls
  /\ tasks' = [tasks EXCEPT !.pend[c] = Task(name, args, tasks.spawned + 1),
                            !.spawned = @ + 1]
  /\ SetMem(Mem)
  /\ UNCHANGED <<disk, now, op, ret, held, issued_ads, issued_rowids>>

\* add_ad from "self._next_ad_id += 1" on, ad_id having been read before
AddAdWithId(m, ad_id, x, t) ==
  [m EXCEPT !.next_ad_id = @ + 1,
            !.ads = OPut(@, ad_id,
                         NewAd(ad_id, x.title, x.model, x.year, x.price, x.description,
                               x.photos, x.inspection_photos, x.thickness_photos, t))]

run_add_ad(c) ==
  LET task == tasks.pend[c]
      x == task.args[1]
  IN /\ task.name = "add_ad"
     /\ task.pc \in {"start", "after_read"}
     /\ CASE task.pc = "start" /\ SuspendsAt("add_ad", "after_read") ->
               Parks(c, "after_read", next_ad_id)
          [] task.pc = "start" /\ ~SuspendsAt("add_ad", "after_read") ->
               add_ad(x, now) /\ Completes(c, IntV(next_ad_id), now)
          [] task.pc = "after_read" ->
               LET m == AddAdWithId(Mem, task.local, x, now)
               IN /\ SetMem(m)
                  /\ disk' = Save(m, disk)
                  /\ Returns("add_ad", <<x>>, IntV(task.local))
                  /\ issued_ads' = Append(issued_ads, task.local)
                  /\ UNCHANGED <<now, held, issued_rowids>>
                  /\ Completes(c, IntV(task.local), now)

\* add_subscription from "self._next_subscription_id += 1" on
AddSubscriptionWithRowid(m, rowid, user_id, x) ==
  LET subscription == [rowid |-> rowid, user_id |-> user_id, model |-> x.model,
                       price_min |-> x.price_min, price_max |-> x.price_max,
                       year_min |-> x.year_min, year_max |-> x.year_max]
  IN [m EXCEPT !.next_subscription_id = @ + 1,
               !.subscriptions = OPut(@, user_id, Append(SubGet(@, user_id), subscription))]

run_add_subscription(c) ==
  LET task == tasks.pend[c]
      user_id == task.args[1]
      x == task.args[2]
  IN /\ task.name = "add_subscription"
     /\ task.pc \in {"start", "after_read"}
     /\ CASE task.pc = "start" /\ SuspendsAt("add_subscription", "after_read") ->
               Parks(c, "after_read", next_subscription_id)
          [] task.pc = "start" /\ ~SuspendsAt("add_subscription", "after_read") ->
               add_subscription(user_id, x) /\ Completes(c, AddSubscriptionResult(Mem), now)
          [] task.pc = "after_read" ->
               LET m == AddSubscriptionWithRowid(Mem, task.local, user_id, x)
               IN /\ SetMem(m)
                  /\ disk' = Save(m, disk)
                  /\ Returns("add_subscription", <<user_id, x>>, AddSubscriptionResult(Mem))
                  /\ issued_rowids' = Append(issued_rowids, task.local)
                  /\ UNCHANGED <<now, held, issued_ads>>
                  /\ Completes(c, AddSubscriptionResult(Mem), now)

run_delete_ad(c) ==
  LET task == tasks.pend[c]
  IN /\ task.name = "delete_ad"
     /\ task.pc = "start"
     /\ delete_ad(task.args[1])
     /\ Completes(c, None, now)

\* ---------------------------------------------------------------------
\* Specifications.  Each one lets callers invoke a group of operations with
\* arguments from small sets.  Every save succeeds in all of them.
\* ---------------------------------------------------------------------
\* the clock stands still: every read returns now
Still == [i \in 1..NumSamples |-> now]
\* the first run's clock reads all returned 0
InitStill == Init /\ now = 0

Untracked == UNCHANGED <<steps, again, fault, failed, tasks>>
Counted == steps < MaxSteps /\ steps' = steps + 1 /\ UNCHANGED <<again, fault, failed, tasks>>
Tracked ==
  /\ again' = (op'.name = op.name /\ op'.args = op.args)
  /\ UNCHANGED <<steps, fault, failed, tasks>>

\* Every mutating operation and restarts, at most MaxSteps operations
Next ==
  \/ Counted /\ \E ts \in ClockReads(now, 2) :
       add_user(1, Str("alice"), Str("approved"), ts)
  \/ Counted /\ \E ts \in ClockReads(now, 2) :
       update_user_contact(1, Str("Alice A."), Str("+7700"), Str("Almaty"), ts)
  \/ Counted /\ \E ts \in ClockReads(now, 2) :
       update_user_status(1, Str("rejected"), ts)
  \/ Counted /\ \E ts \in ClockReads(now, 3) :
       update_last_active(1, ts)
  \/ Counted /\ \E username \in {None, Str("bob")}, ts \in ClockReads(now, 2) :
       update_username(1, username, ts)
  \/ Counted /\ update_user_cheque(1, Str("cheque1"))
  \/ Counted /\ set_bot_state(FALSE)
  \/ Counted /\ \E x \in AdArgs, t \in ClockStep(now) :
       add_ad(x, t)
  \/ Counted /\ \E media_type \in {"photo", "video"} :
       append_ad_media(1, "f2", media_type)
  \/ Counted /\ \E fields \in UpdateArgs :
       update_ad(1, fields)
  \/ Counted /\ \E mode \in {"up", "ascending"} :
       set_auction_mode(1, mode)
  \/ Counted /\ \E t \in ClockStep(now) :
       add_price_offer(1, 1, 100, "buy", t)
  \/ Counted /\ consume_price_offer(1, 1, 100, "buy")
  \/ Counted /\ \E ad_id \in 1..NumSamples :
       delete_ad(ad_id)
  \/ Counted /\ add_to_favorites(1, 1)
  \/ Counted /\ remove_from_favorites(1, 1)
  \/ Counted /\ \E x \in SubArgs :
       add_subscription(1, x)
  \/ Counted /\ delete_subscription(IntV(1))
  \/ Counted /\ \E ts \in ClockReads(now, NumSamples) :
       Restart(ts)

Spec == InitStill /\ [][Next]_vars

\* Ids: the operations that hand out or retire ids, and restarts
NextIds ==
  \/ \E x \in AdArgs : add_ad(x, now) /\ Untracked
  \/ \E ad_id \in AllAdIds : delete_ad(ad_id) /\ Untracked
  \/ \E user_id \in UserIds, x \in SubArgs : add_subscription(user_id, x) /\ Untracked
  \/ \E rowid \in RowidArgs : delete_subscription(rowid) /\ Untracked
  \/ Restart(Still) /\ Untracked

SpecIds == InitStill /\ [][NextIds]_vars

\* Subscriptions, with repeated calls tracked
NextSubs ==
  \/ \E user_id \in UserIds, x \in SubArgs : add_subscription(user_id, x) /\ Tracked
  \/ \E rowid \in RowidArgs : delete_subscription(rowid) /\ Tracked
  \/ get_all_subscriptions /\ Tracked
  \/ Restart(Still) /\ Tracked

SpecSubs == InitStill /\ [][NextSubs]_vars

\* Favorites
FavAdIds == {1, NumSamples + 1, MaxAdId + 1}
NextFav ==
  \/ \E x \in AdArgs : add_ad(x, now) /\ Untracked
  \/ \E ad_id \in FavAdIds : delete_ad(ad_id) /\ Untracked
  \/ \E user_id \in UserIds, ad_id \in FavAdIds : add_to_favorites(user_id, ad_id) /\ Untracked
  \/ \E user_id \in UserIds, ad_id \in FavAdIds :
       remove_from_favorites(user_id, ad_id) /\ Untracked
  \/ \E user_id \in UserIds, ad_id \in FavAdIds : is_favorite(user_id, ad_id) /\ Untracked
  \/ \E user_id \in UserIds : get_favorite_ads(user_id) /\ Untracked
  \/ Restart(Still) /\ Untracked

SpecFav == InitStill /\ [][NextFav]_vars

\* Price offers, the clock running
OfferArgs == {<<1, 100, "buy">>, <<2, 100, "buy">>, <<1, 200, "buy">>, <<1, 100, "counter">>}
NextOffers ==
  \/ \E x \in OfferArgs, t \in ClockStep(now) :
       add_price_offer(1, x[1], x[2], x[3], t) /\ Untracked
  \/ \E ad_id \in {1, 2}, x \in OfferArgs :
       consume_price_offer(ad_id, x[1], x[2], x[3]) /\ Untracked
  \/ Restart(Still) /\ Untracked

SpecOffers == InitStill /\ [][NextOffers]_vars

\* Callers that read values and change what they were given
NextRead ==
  \/ Counted /\ add_user(1, Str("alice"), Str("pending"), <<now, now>>)
  \/ Counted /\ \E x \in SubArgs :
       add_subscription(1, x)
  \/ Counted /\ add_to_favorites(1, 1)
  \/ Counted /\ append_ad_media(1, "f2", "inspection")
  \/ Counted /\ delete_ad(1)
  \/ Counted /\ get_ads
  \/ Counted /\ \E ad_id \in {1, MaxAdId + 1} :
       get_ad(ad_id)
  \/ Counted /\ get_favorite_ads(1)
  \/ Counted /\ \E user_id \in UserIds :
       get_user(user_id)
  \/ Counted /\ get_subscriptions(1)
  \/ Counted /\ get_all_subscriptions
  \/ Counted /\ \E key \in {"title", "status", "rowid", "photos"} :
       caller_sets_key(1, key, <<"changed">>)
  \/ Counted /\ \E key \in MediaKeys :
       caller_appends(1, key, "f9")

SpecRead == InitStill /\ [][NextRead]_vars

\* Ads: changes to stored ads and calls that fail
AbsentOrStored == {1, MaxAdId + 1}
NextAds ==
  \/ \E x \in AdArgs : add_ad(x, now) /\ Untracked
  \/ delete_ad(1) /\ Untracked
  \/ \E ad_id \in AbsentOrStored, media_type \in {"inspection", "video"} :
       append_ad_media(ad_id, "f2", media_type) /\ Untracked
  \/ \E ad_id \in AbsentOrStored, fields \in UpdateArgs :
       update_ad(ad_id, fields) /\ Untracked
  \/ \E ad_id \in AbsentOrStored, mode \in {"down", "ascending"} :
       set_auction_mode(ad_id, mode) /\ Untracked
  \/ Restart(Still) /\ Untracked

SpecAds == InitStill /\ [][NextAds]_vars

\* Listing: ads created while the clock runs, deletions, get_ads and restarts
NextOrder ==
  \/ \E x \in AdArgs, t \in ClockStep(now) : add_ad(x, t) /\ Untracked
  \/ \E ad_id \in {1, NumSamples + 1, NumSamples + 2} : delete_ad(ad_id) /\ Untracked
  \/ get_ads /\ Untracked
  \/ Restart(Still) /\ Untracked

SpecOrder == InitStill /\ [][NextOrder]_vars

\* Users: every operation on one user id, at most MaxSteps operations
NextUsers ==
  \/ Counted /\ \E username \in {None, Str("alice")}, status \in {Str("pending"), Str("approved")},
        ts \in ClockReads(now, 2) :
       add_user(1, username, status, ts)
  \/ Counted /\ update_user_contact(1, Str("Alice A."), Str("+7700"), Str("Almaty"), <<now, now>>)
  \/ Counted /\ update_user_status(1, Str("rejected"), <<now, now>>)
  \/ Counted /\ update_last_active(1, <<now, now, now>>)
  \/ Counted /\ \E username \in {None, Str(""), Str("alice"), Str("bob")}, ts \in ClockReads(now, 2) :
       update_username(1, username, ts)
  \/ Counted /\ update_user_cheque(1, Str("cheque1"))
  \/ Counted /\ get_user(1)
  \/ Counted /\ Restart(Still)

SpecUsers == InitStill /\ [][NextUsers]_vars

\* Failing disk writes: a write of _save_data may raise, before or after it
\* truncated its document
SaveOutcomes ==
  {NoFault, [written |-> 1, torn |-> TRUE], [written |-> NumDocs - 1, torn |-> FALSE]}
\* the methods that call _save_data whatever their arguments
AlwaysSaves ==
  {"add_user", "update_user_contact", "update_user_status", "set_bot_state",
   "add_ad", "add_price_offer", "add_subscription"}
Faulty ==
  /\ steps' = steps + 1
  /\ fault' \in SaveOutcomes
  /\ failed' = IF op'.name = "__init__" THEN op'.saw /\ fault # NoFault
               ELSE failed \/ (fault # NoFault /\ op'.name \in AlwaysSaves)
  /\ UNCHANGED <<again, tasks>>

\* at most MaxSteps operations
NextFaults ==
  \/ steps < MaxSteps /\ (\E x \in AdArgs : add_ad(x, now)) /\ Faulty
  \/ steps < MaxSteps /\ (\E ad_id \in 1..NumSamples : delete_ad(ad_id)) /\ Faulty
  \/ steps < MaxSteps /\ (\E x \in SubArgs : add_subscription(1, x)) /\ Faulty
  \/ steps < MaxSteps /\ update_last_active(1, <<now, now, now>>) /\ Faulty
  \/ steps < MaxSteps /\ Restart(Still) /\ Faulty

SpecFaults == InitStill /\ [][NextFaults]_vars

\* Subscription lists of several entries, and deletions from them
NextSubLists ==
  \/ \E user_id \in UserIds, x \in SubArgs :
       add_subscription_within(user_id, x, MaxSubs) /\ Untracked
  \/ \E r \in 1..(MaxSubs + 1) : delete_subscription(IntV(r)) /\ Untracked
  \/ Restart(Still) /\ Untracked

SpecSubLists == InitStill /\ [][NextSubLists]_vars

\* Concurrent callers: at most MaxCalls coroutines, run in any order
Scheduled == UNCHANGED <<steps, again, fault, failed>>
NextTasks ==
  \/ \E c \in Callers, x \in AdArgs : spawn(c, "add_ad", <<x>>) /\ Scheduled
  \/ \E c \in Callers, x \in SubArgs : spawn(c, "add_subscription", <<c, x>>) /\ Scheduled
  \/ \E c \in Callers : spawn(c, "delete_ad", <<NumSamples + 1>>) /\ Scheduled
  \/ \E c \in Callers : run_add_ad(c) /\ Scheduled
  \/ \E c \in Callers : run_add_subscription(c) /\ Scheduled
  \/ \E c \in Callers : run_delete_ad(c) /\ Scheduled

SpecTasks == InitStill /\ [][NextTasks]_vars

\* ---------------------------------------------------------------------
\* Claims
\* ---------------------------------------------------------------------
StrictlyIncreasing(s) == \A i, j \in 1..Len(s) : i < j => s[i] < s[j]

\* C1: over add_ad, delete_ad, add_subscription, delete_subscription and
\* restarts, every ad id handed out (by add_ad or by the seeding) is greater
\* than every ad id handed out before it, and every rowid handed out is
\* greater than every rowid handed out before it; no id is handed out twice.
C1_IdsNeverReused ==
  /\ StrictlyIncreasing(issued_ads)
  /\ StrictlyIncreasing(issued_rowids)

\* ids were handed out by a restart after every earlier ad was deleted, and
\* a rowid was handed out after an earlier subscription was deleted
C1_Witness ==
  /\ op.name = "__init__"
  /\ Len(issued_ads) > NumSamples
  /\ \A i \in 1..NumSamples : issued_ads[i] \notin OKeys(ads)
  /\ Len(issued_rowids) >= 2
  /\ issued_rowids[1] \notin RowIds(subscriptions)
  /\ issued_rowids[Len(issued_rowids)] \in RowIds(subscriptions)

\* the documents are exactly what a save of the current fields writes
AllSaved == disk = SaveAll(Mem, disk)

\* C2: round trip through persistence: when everything in memory has been
\* saved, a restart yields users, ads, favorites, subscriptions, price
\* offers, bot_open and both id counters equal to the values before it.
C2_RoundTrip ==
  [][op'.name = "__init__" /\ AllSaved => MemNext = Mem]_vars

MutatingOps ==
  {"add_user", "update_user_contact", "update_user_status", "update_last_active",
   "update_username", "update_user_cheque", "set_bot_state", "add_ad",
   "append_ad_media", "update_ad", "set_auction_mode", "add_price_offer",
   "consume_price_offer", "delete_ad", "add_to_favorites",
   "remove_from_favorites", "add_subscription", "delete_subscription"}

\* The fields as callers can observe them: a key of a defaultdict that
\* holds an empty set or list reads like a key that is not there.
Observable(m) ==
  [m EXCEPT
     !.favorites = [u \in {k \in DOMAIN @ : @[k] # {}} |-> @[u]],
     !.subscriptions = SelectSeq(@, LAMBDA item : item[2] # <<>>),
     !.price_offers = [a \in {k \in DOMAIN @ : @[k] # <<>>} |-> @[a]]]

\* C3: every mutating operation rewrites the documents before it returns: if
\* the call changed the in-memory state, loading the documents right after
\* the call yields the changed state.
C3_SavedBeforeReturn ==
  [][op'.name \in MutatingOps /\ Observable(MemNext) # Observable(Mem)
       => Observable(LoadData(disk')) = Observable(MemNext)]_vars

\* C4: the example ads are seeded only on the first run: at a startup that
\* finds the documents of an earlier run, the ad collection is exactly the
\* one saved last.
C4_SeedOnlyOnFirstRun ==
  [][op'.name = "__init__" /\ disk.ads.st = "ok" => ads' = LoadData(disk).ads]_vars

\* C5: every ad id in any user's favorites set is the id of an ad in the
\* ad collection.
C5_FavoritesExist ==
  \A u \in DOMAIN favorites : favorites[u] \subseteq OKeys(ads)

\* an ad that was a favorite has just been deleted and favorites remain
C5_Witness ==
  /\ op.name = "delete_ad"
  /\ op.saw # {}
  /\ \E u \in DOMAIN favorites : favorites[u] # {}

\* C6: after delete_ad(A), is_favorite(U, A) is false and A is not among
\* get_favorite_ads(U) for every user U, and every user's favorites for
\* the other ads are as before.
C6_CascadeOnDelete ==
  [][op'.name = "delete_ad" =>
       LET A == op'.args[1]
       IN /\ \A U \in UserIds :
               /\ ~IsFavoriteResult(MemNext, U, A)
               /\ \A i \in 1..Len(GetFavoriteAdsResult(MemNext, U)) :
                    GetFavoriteAdsResult(MemNext, U)[i].ad_id # A
          /\ DOMAIN favorites' = DOMAIN favorites
          /\ \A U \in DOMAIN favorites : favorites'[U] \ {A} = favorites[U] \ {A}]_vars

\* delete_ad removed an ad that both users had as a favorite, and one of
\* them still has another favorite
C6_Witness ==
  /\ op.name = "delete_ad"
  /\ op.saw = UserIds
  /\ op.args[1] \notin OKeys(ads)
  /\ \E u \in DOMAIN favorites : favorites[u] # {}

\* what every accessor would return now
AccessorResults(m) ==
  [get_ads |-> GetAdsResult(m),
   get_ad |-> [a \in AllAdIds |-> GetAdResult(m, a)],
   get_favorite_ads |-> [u \in UserIds |-> GetFavoriteAdsResult(m, u)],
   get_user |-> [u \in UserIds |-> GetUserResult(m, u)],
   get_subscriptions |-> [u \in UserIds |-> GetSubscriptionsResult(m, u)],
   get_all_subscriptions |-> GetAllSubscriptionsResult(m)]

\* C7: read accessors return copies: whatever a caller does to a value it
\* was given, every accessor returns afterwards what it returned before.
C7_AccessorsReturnCopies ==
  [][op'.name \in {"caller_sets_key", "caller_appends"} =>
       AccessorResults(MemNext) = AccessorResults(Mem)]_vars

\* C8: consume_price_offer(ad, user, price, kind) removes the first offer of
\* the ad equal on (user_id, price, kind) and returns it, the other offers
\* keeping their order; without such an offer it returns None and changes
\* no offer list.
C8_ConsumeFirstMatch ==
  [][op'.name = "consume_price_offer" =>
       LET ad == op'.args[1]
           offers == IF ad \in DOMAIN price_offers THEN price_offers[ad] ELSE <<>>
           hits == {i \in 1..Len(offers) :
                      /\ offers[i].user_id = op'.args[2]
                      /\ offers[i].price = op'.args[3]
                      /\ offers[i].kind = op'.args[4]}
       IN IF hits = {}
          THEN ret' = None /\ price_offers' = price_offers
          ELSE LET first == CHOOSE i \in hits : \A j \in hits : i <= j
               IN /\ ret' = <<"offer", offers[first]>>
                  /\ DOMAIN price_offers' = DOMAIN price_offers
                  /\ \A a \in DOMAIN price_offers \ {ad} :
                       price_offers'[a] = price_offers[a]
                  /\ price_offers'[ad] =
                       [j \in 1..(Len(offers) - 1) |->
                          IF j < first THEN offers[j] ELSE offers[j + 1]]]_vars

\* consume_price_offer returned the older of two offers equal on
\* (user_id, price, kind); the newer one is still in the list
C8_Witness ==
  /\ op.name = "consume_price_offer"
  /\ ret # None
  /\ \E i \in 1..Len(price_offers[op.args[1]]) :
       LET o == price_offers[op.args[1]][i]
       IN /\ o.user_id = ret[2].user_id
          /\ o.price = ret[2].price
          /\ o.kind = ret[2].kind
          /\ o.created_at[2] > ret[2].created_at[2]

\* C9: add_subscription returns the rowid it assigned, and delete_subscription
\* of the returned value removes exactly the subscription just created.
C9_ReturnsRowid ==
  [][op'.name = "add_subscription" =>
       /\ ret' = IntV(next_subscription_id)
       /\ \A u \in UserIds :
            SubGet(DeleteSubscription(MemNext, ret').subscriptions, u)
              = SubGet(subscriptions, u)]_vars

\* C10: delete_subscription(rowid) with a rowid no stored subscription
\* carries raises nothing and leaves every subscription list as it was, and
\* a second call with the same rowid changes nothing.
C10_DeleteAbsentOrTwice ==
  [][op'.name = "delete_subscription" =>
       /\ ret' = None
       /\ op'.args[1] \notin {IntV(r) : r \in RowIds(subscriptions)}
            => subscriptions' = subscriptions
       /\ again' => MemNext = Mem /\ disk' = disk]_vars

\* delete_subscription was called a second time in a row with a rowid that
\* had been handed out, while other subscriptions are stored
C10_Witness ==
  /\ op.name = "delete_subscription"
  /\ again
  /\ op.args[1] \in {IntV(r) : r \in SeqRange(issued_rowids)}
  /\ AllSubs(subscriptions) # {}

\* C11: append_ad_media, update_ad and set_auction_mode on an absent ad id,
\* append_ad_media with a media type outside photo, inspection, thickness,
\* and set_auction_mode with a mode outside off, up, down each raise an
\* error, and after the error every collection, bot_open, both id counters
\* and the documents are exactly as before the call.
C11_FailureChangesNothing ==
  [][LET absent == op'.args[1] \notin OKeys(ads)
         fails ==
           \/ op'.name = "append_ad_media" /\
                (absent \/ op'.args[3] \notin {"photo", "inspection", "thickness"})
           \/ op'.name = "update_ad" /\ absent
           \/ op'.name = "set_auction_mode" /\
                (absent \/ op'.args[2] \notin {"off", "up", "down"})
     IN /\ fails => ret'[1] = "raise"
        /\ ret'[1] = "raise" => MemNext = Mem /\ disk' = disk]_vars

\* set_auction_mode has just raised for a stored ad whose media and fields
\* were changed before
C11_Witness ==
  /\ op.name = "set_auction_mode"
  /\ ret[1] = "raise"
  /\ op.args[1] \in OKeys(ads)
  /\ OGet(ads, 1).inspection_photos # <<>>
  /\ OGet(ads, 1).price = 200

\* the ads that add_ad created (nothing renames an ad in SpecOrder)
CreatedByAddAd(ad) == \E x \in AdArgs : ad.title = x.title /\ ad.model = x.model

\* C12 as stated: of two ads created by add_ad, the one created later
\* comes first in get_ads, also when both calls read the same instant.
C12_LaterAdFirst ==
  LET r == GetAdsResult(Mem)
  IN \A i, j \in 1..Len(r) :
       CreatedByAddAd(r[i]) /\ CreatedByAddAd(r[j]) /\ r[i].ad_id < r[j].ad_id
         => j < i

\* C12 amended: of two ads A and B created by add_ad, B after A, B comes
\* before A in get_ads when B's added_date is later than A's, and after A
\* when both calls read the same instant.
C12_LaterAdFirstUnlessTied ==
  LET r == GetAdsResult(Mem)
  IN \A i, j \in 1..Len(r) :
       CreatedByAddAd(r[i]) /\ CreatedByAddAd(r[j]) /\ r[i].ad_id < r[j].ad_id
         => IF r[j].added_date[2] > r[i].added_date[2] THEN j < i ELSE i < j

\* get_ads has returned three ads of add_ad: two of the same instant and one
\* of a later instant
C12_Witness ==
  /\ op.name = "get_ads"
  /\ \E i, j, k \in 1..Len(ret[2]) :
       /\ CreatedByAddAd(ret[2][i]) /\ CreatedByAddAd(ret[2][j]) /\ CreatedByAddAd(ret[2][k])
       /\ ret[2][i].ad_id < ret[2][j].ad_id
       /\ ret[2][i].added_date = ret[2][j].added_date
       /\ ret[2][k].added_date[2] > ret[2][j].added_date[2]

\* C13: get_ads returns every ad of the collection exactly once, in
\* non-increasing order of added_date, ads of equal added_date in the order
\* in which they were inserted into the collection.
C13_GetAdsOrder ==
  LET r == GetAdsResult(Mem)
  IN /\ Len(r) = Len(ads)
     /\ \A k \in OKeys(ads) : \E i \in 1..Len(r) : r[i] = OGet(ads, k)
     /\ \A i, j \in 1..Len(r) :
          i < j =>
            /\ r[i].added_date[2] >= r[j].added_date[2]
            /\ r[i].added_date = r[j].added_date =>
                 OIndex(ads, r[i].ad_id) < OIndex(ads, r[j].ad_id)

\* get_ads has returned ads of two instants, the later ones first, after an
\* ad was deleted
C13_Witness ==
  /\ op.name = "get_ads"
  /\ ret = Value(GetAdsResult(Mem))
  /\ SeqRange(issued_ads) \ OKeys(ads) # {}
  /\ \E i, j \in 1..Len(ret[2]) :
       /\ i < j
       /\ ret[2][i].added_date[2] > ret[2][j].added_date[2]
       /\ OIndex(ads, ret[2][i].ad_id) > OIndex(ads, ret[2][j].ad_id)
  /\ \E i, j \in 1..Len(ret[2]) :
       i < j /\ ret[2][i].added_date = ret[2][j].added_date

\* C14: add_to_favorites(U, A) with A not in the ad collection raises no
\* error, leaves get_favorite_ads(U) as it was and changes no collection,
\* counter, flag or document.
C14_AddAbsentAdToFavorites ==
  [][op'.name = "add_to_favorites" /\ op'.args[2] \notin OKeys(ads) =>
       /\ ret' = None
       /\ GetFavoriteAdsResult(MemNext, op'.args[1])
            = GetFavoriteAdsResult(Mem, op'.args[1])
       /\ \A U \in UserIds :
            IsFavoriteResult(MemNext, U, op'.args[2]) = IsFavoriteResult(Mem, U, op'.args[2])
       /\ MemNext = Mem
       /\ disk' = disk]_vars

\* add_to_favorites was called for an ad that is not stored, by a user who
\* has a favorite
C14_Witness ==
  /\ op.name = "add_to_favorites"
  /\ op.args[2] \notin OKeys(ads)
  /\ op.args[1] \in DOMAIN favorites
  /\ favorites[op.args[1]] # {}

\* C15: add_user(id, username, status) on an absent id creates a record
\* with created_at and last_active set to now; on an existing id it changes
\* only username and status, leaving created_at, last_active, name, phone,
\* city and cheque_file_id as they were; a second consecutive call with the
\* same arguments leaves the record as the first call left it.
C15_AddUserUpsert ==
  [][op'.name = "add_user" =>
       LET id == op'.args[1]
       IN /\ ret' = None
          /\ DOMAIN users' = DOMAIN users \cup {id}
          /\ \A u \in DOMAIN users \ {id} : users'[u] = users[u]
          /\ id \notin DOMAIN users =>
               /\ users'[id] = UserRecord(id, op'.args[2], op'.args[3],
                                          users'[id].created_at, users'[id].last_active)
               /\ IsDatetime(users'[id].created_at)
               /\ IsDatetime(users'[id].last_active)
               /\ now <= users'[id].created_at[2]
               /\ users'[id].created_at[2] <= users'[id].last_active[2]
               /\ users'[id].last_active[2] <= now'
          /\ id \in DOMAIN users =>
               users'[id] = [users[id] EXCEPT !.username = op'.args[2],
                                              !.status = op'.args[3]]
          /\ op'.name = op.name /\ op'.args = op.args => users' = users]_vars

\* C16: update_username(id, name) with name absent or the empty string
\* leaves the user collection unchanged; with a non-empty name it creates
\* a default record for a missing id, and otherwise changes nothing but the
\* username, and nothing at all when the stored username equals name.
C16_UpdateUsername ==
  [][op'.name = "update_username" =>
       LET id == op'.args[1]
           name == op'.args[2]
       IN /\ ret' = None
          /\ name \in {None, Str("")} => users' = users
          /\ name \notin {None, Str("")} =>
               /\ DOMAIN users' = DOMAIN users \cup {id}
               /\ \A u \in DOMAIN users \ {id} : users'[u] = users[u]
               /\ id \notin DOMAIN users =>
                    users'[id] = UserRecord(id, name, Str("pending"),
                                            users'[id].created_at, users'[id].last_active)
               /\ id \in DOMAIN users =>
                    users'[id] = [users[id] EXCEPT !.username = name]]_vars

\* a restart into r keeps everything of the memory m: every collection,
\* flag and counter of m, and of ads nothing but freshly seeded ones added
RestartKeeps(r, m) ==
  /\ r.users = m.users
  /\ r.favorites = m.favorites
  /\ r.subscriptions = m.subscriptions
  /\ r.price_offers = m.price_offers
  /\ r.bot_open = m.bot_open
  /\ r.next_subscription_id = m.next_subscription_id
  /\ r.next_ad_id >= m.next_ad_id
  /\ \A k \in OKeys(m.ads) : k \in OKeys(r.ads) /\ OGet(r.ads, k) = OGet(m.ads, k)
  /\ \A k \in OKeys(r.ads) \ OKeys(m.ads) : k >= m.next_ad_id

\* C17: when a write of _save_data fails, the calling operation still
\* returns its normal result with its change made in memory, and after a
\* call whose save succeeds a restart yields everything that is in memory,
\* the changes made since a failed save included.
C17_SaveFailureIsAbsorbed ==
  [][LET saves == op'.name \in AlwaysSaves \/
                    (op'.name = "delete_ad" /\ op'.args[1] \in OKeys(ads))
     IN /\ op'.name = "add_ad" =>
             ret' = IntV(next_ad_id) /\ next_ad_id \in OKeys(ads')
        /\ op'.name = "add_subscription" =>
             ret' = None /\ next_subscription_id \in RowIds(subscriptions')
        /\ op'.name = "delete_ad" =>
             ret' = None /\ op'.args[1] \notin OKeys(ads')
        /\ saves /\ fault = NoFault =>
             RestartKeeps(Construct(disk', [i \in 1..NumSamples |-> now']).mem, MemNext)]_vars

\* a save has failed in this process, and the call that just returned saved
\* everything: a user made by update_last_active, a subscription and an ad
C17_Witness ==
  /\ failed
  /\ op.name \in AlwaysSaves
  /\ AllSaved
  /\ users # EmptyDict
  /\ subscriptions # <<>>
  /\ Len(ads) > NumSamples

\* the calls of the log run one after the other, in the order of the log
ApplyCall(m, e) ==
  CASE e.name = "add_ad" ->
         AddAd(m, e.args[1].title, e.args[1].price, e.args[1].description,
               e.args[1].photos, e.args[1].inspection_photos,
               e.args[1].thickness_photos, e.args[1].model, e.args[1].year, e.t)
    [] e.name = "add_subscription" ->
         AddSubscription(m, e.args[1], e.args[2].model, e.args[2].price_min,
                         e.args[2].price_max, e.args[2].year_min, e.args[2].year_max)
    [] e.name = "delete_ad" -> DeleteAd(m, e.args[1])
ResultOfCall(m, e) ==
  CASE e.name = "add_ad" -> IntV(m.next_ad_id)
    [] e.name = "add_subscription" -> AddSubscriptionResult(m)
    [] e.name = "delete_ad" -> None
RECURSIVE Replay(_, _, _)
Replay(m, log, i) ==
  IF i > Len(log) THEN [mem |-> m, ok |-> TRUE]
  ELSE IF log[i].result # ResultOfCall(m, log[i]) THEN [mem |-> m, ok |-> FALSE]
  ELSE Replay(ApplyCall(m, log[i]), log, i + 1)
FirstRunMem == Construct(EmptyDisk, [i \in 1..NumSamples |-> 0]).mem

\* C18: with callers running concurrently on the event loop, the fields and
\* the documents are those of the completed calls run one after the other
\* in some order (the order in which they completed), each call having
\* returned what it returns in that sequential run; two add_ad calls never
\* return the same id.
C18_Serializable ==
  /\ Replay(FirstRunMem, tasks.log, 1).ok
  /\ Replay(FirstRunMem, tasks.log, 1).mem = Mem
  /\ AllSaved
  /\ \A i, j \in 1..Len(tasks.log) :
       i # j /\ tasks.log[i].name = "add_ad" /\ tasks.log[j].name = "add_ad"
         => tasks.log[i].result # tasks.log[j].result

\* two add_ad coroutines were pending together and completed in the order
\* opposite to the one in which they were created; a delete_ad followed
C18_Witness ==
  /\ Len(tasks.log) = 3
  /\ tasks.log[1].name = "add_ad"
  /\ tasks.log[2].name = "add_ad"
  /\ tasks.log[3].name = "delete_ad"
  /\ tasks.log[1].spawned = 2
  /\ tasks.log[2].spawned = 1
  /\ tasks.log[1].result = IntV(NumSamples + 1)
  /\ tasks.log[2].result = IntV(NumSamples + 2)

\* C19: delete_subscription(rowid) with the rowid of a stored subscription
\* removes that one subscription from its owner's list, the owner's other
\* subscriptions staying in their order; the lists of all other users, the
\* order of the users and every other collection and counter stay as they
\* were, and nothing is returned.
C19_DeleteRemovesOnlyThat ==
  [][op'.name = "delete_subscription"
       /\ op'.args[1] \in {IntV(r) : r \in RowIds(subscriptions)} =>
       LET r == op'.args[1][2]
           Owns(u) == \E i \in 1..Len(SubGet(subscriptions, u)) :
                         SubGet(subscriptions, u)[i].rowid = r
       IN /\ ret' = None
          /\ [i \in 1..Len(subscriptions') |-> subscriptions'[i][1]]
               = [i \in 1..Len(subscriptions) |-> subscriptions[i][1]]
          /\ \A u \in UserIds :
               LET subs == SubGet(subscriptions, u)
               IN IF Owns(u)
                  THEN \E i \in 1..Len(subs) :
                         /\ subs[i].rowid = r
                         /\ SubGet(subscriptions', u) = RemoveAt(subs, i)
                  ELSE SubGet(subscriptions', u) = subs
          /\ AllSubs(subscriptions') = AllSubs(subscriptions) \ {x \in AllSubs(subscriptions) : x.rowid = r}
          /\ UNCHANGED <<users, ads, favorites, price_offers, bot_open,
                         next_ad_id, next_subscription_id>>]_vars

\* delete_subscription removed the middle one of three subscriptions of
\* user 1 while user 2 held a subscription
C19_Witness ==
  /\ op.name = "delete_subscription"
  /\ op.args = <<IntV(2)>>
  /\ op.saw = TRUE
  /\ Len(SubGet(subscriptions, 1)) = 2
  /\ SubGet(subscriptions, 1)[1].rowid = 1
  /\ SubGet(subscriptions, 1)[2].rowid = 3
  /\ Len(SubGet(subscriptions, 2)) = 1


\* C20: update_ad(ad_id, fields) on a stored ad returns nothing and gives
\* each of title, model, year, price, description that fields names the
\* value fields carries; every other key of fields is ignored, so the ad's
\* id, photos, inspection_photos, thickness_photos, added_date and
\* auction_mode keep their values, and every other ad, the order of the
\* ads and every other collection and counter stay as they were.
C20_UpdateAdFrame ==
  [][op'.name = "update_ad" /\ op'.args[1] \in OKeys(ads) =>
       LET ad_id == op'.args[1]
           fields == op'.args[2]
           before == OGet(ads, ad_id)
           after == OGet(ads', ad_id)
       IN /\ ret' = None
          /\ [i \in 1..Len(ads') |-> ads'[i][1]] = [i \in 1..Len(ads) |-> ads[i][1]]
          /\ DOMAIN after = DOMAIN before
          /\ \A k \in {"title", "model", "year", "price", "description"} :
               after[k] = IF k \in DOMAIN fields THEN fields[k] ELSE before[k]
          /\ \A k \in {"ad_id", "photos", "inspection_photos", "thickness_photos",
                       "added_date", "auction_mode"} : after[k] = before[k]
          /\ \A other \in OKeys(ads) \ {ad_id} : OGet(ads', other) = OGet(ads, other)
          /\ UNCHANGED <<users, favorites, subscriptions, price_offers, bot_open,
                         next_ad_id, next_subscription_id>>]_vars

\* update_ad was called with a title and an auction_mode on stored ad 1,
\* whose auction mode had been set to down, while other ads were stored
C20_Witness ==
  /\ op.name = "update_ad"
  /\ op.args[1] = 1
  /\ DOMAIN op.args[2] = {"title", "auction_mode"}
  /\ ret = None
  /\ 1 \in OKeys(ads)
  /\ OGet(ads, 1).title = op.args[2].title
  /\ OGet(ads, 1).auction_mode = "down"
  /\ Cardinality(OKeys(ads)) >= 2


\* the documents _load_data did not get to: those after the first
\* unreadable one
Unread(d) ==
  {n \in SeqRange(DocOrder) :
     \E b \in SeqRange(DocOrder) : d[b].st = "bad" /\ DocPos(b) < DocPos(n)}

\* C21: when a document is unreadable at startup, the documents the load
\* did not get to are on disk after startup exactly as they were before:
\* the favorites, subscriptions and price offers stored in them are not
\* overwritten or emptied.
C21_FailedLoadKeepsDocuments ==
  [][op'.name = "__init__" =>
       \A n \in Unread(disk) : disk[n].st = "ok" => disk'[n] = disk[n]]_vars


\* C22: in every reachable state, the state right after a restart that
\* follows a save which wrote some documents and failed before state.json
\* included, the next ad id is greater than every id in the ad collection
\* and the next subscription id is greater than every stored rowid.
C22_NextIdsAboveStored ==
  /\ \A ad_id \in OKeys(ads) : ad_id < next_ad_id
  /\ \A rowid \in RowIds(subscriptions) : rowid < next_subscription_id


\* C23: every record of the user collection, whichever operation created
\* it, has all of the keys user_id, username, status, name, phone, city,
\* cheque_file_id, created_at and last_active.
C23_UserRecordsComplete ==
  \A user_id \in DOMAIN users :
    /\ "user_id" \in DOMAIN users[user_id]
    /\ \A k \in {"username", "status", "name", "phone", "city",
                 "cheque_file_id", "created_at", "last_active"} :
         k \in DOMAIN users[user_id] /\ users[user_id][k] # Missing

====
